---- MODULE Spec2Model ----
(***************************************************************************)
(* Model of src/transaction/lowering.rs: the constructor functions that    *)
(* take high-level client types (Key, BoundRange, Timestamp, lock          *)
(* candidates) and call the low-level constructors of the requests module. *)
(*                                                                         *)
(* A call of a lowering function is one step when the function only        *)
(* converts scalars, and a short run of steps when it drains an iterator:  *)
(* the call begins, `map(..).collect()` pulls the items one at a time into *)
(* a fresh Vec, and when the iterator is exhausted the remaining arguments *)
(* are evaluated and the low-level constructor is invoked.                 *)
(***************************************************************************)
EXTENDS Integers, Sequences, FiniteSets, TLC

VARIABLES pc, fn, in, it, pulls, vec, out, again

vars == <<pc, fn, in, it, pulls, vec, out, again>>

(***************************************************************************)
(* Bounds of the model.                                                    *)
(***************************************************************************)
MaxLen == 2

(***************************************************************************)
(* Data model.                                                             *)
(***************************************************************************)
\* Raw key bytes (Vec<u8>): the empty string and two one-byte strings, "k1" < "k2".
KeyBytes == {<<>>, <<1>>, <<2>>}

\* crate::Key, a wrapper around the raw bytes.
Key(bytes) == [bytes |-> bytes]

Keys == {Key(b) : b \in KeyBytes}

\* Key -> Vec<u8> (`.into()`): unwraps the raw bytes.
KeyInto(k) == k.bytes

\* Key::default(): the empty key.
KeyDefault == Key(<<>>)

\* Option<T>: None is the empty sequence, Some(x) the one-element sequence.
None == <<>>

Some(x) == <<x>>

\* Option::unwrap_or_default, at type Option<Key>.
unwrap_or_default(o) == IF o = None THEN KeyDefault ELSE o[1]

\* BoundRange: a start key and an optional upper bound.
BoundRange(start, end) == [end |-> end, start |-> start]

BoundRanges == {BoundRange(s, e) : s \in Keys, e \in {None} \cup {Some(k) : k \in Keys}}

\* BoundRange::into_keys: (start_key, end_key_or_none).
into_keys(range) == <<range.start, range.end>>

\* pdpb::Timestamp, reduced to the version number it stands for.
Timestamp(v) == [version |-> v]

Timestamps == {Timestamp(10), Timestamp(12)}

\* Pairs of timestamps for the two-role functions: equal, ascending and descending
\* pairs, and the pair of the spec's example.
TimestampPairs ==
  (Timestamps \X Timestamps) \cup {<<Timestamp(100), Timestamp(105)>>}

\* TimestampExt::version: the numeric version of a timestamp.
version(ts) == ts.version

\* kvrpcpb::Assertion
Assertions == {"None", "Exists", "NotExist"}

\* kvrpcpb::Mutation
Mutation(op, key, value, assertion) ==
  [assertion |-> assertion, key |-> key, op |-> op, value |-> value]

\* Mutation::default(): op Put (the first enum value), empty key and value, no assertion.
MutationDefault == Mutation("Put", <<>>, <<>>, "None")

\* Wire-form mutations handed to the prewrite functions.
Mutations ==
  {Mutation("Put", <<1>>, <<2>>, "None"), Mutation("Put", <<2>>, <<1>>, "None"),
   Mutation("Del", <<1>>, <<>>, "None"), Mutation("Lock", <<2>>, <<>>, "Exists")}

Limits == {0, 1}

Ttls == {0, 3000}

RECURSIVE SeqsUpTo(_, _)
\* All sequences over S of length at most n.
SeqsUpTo(S, n) ==
  IF n = 0 THEN {<<>>}
  ELSE LET shorter == SeqsUpTo(S, n - 1)
       IN shorter \cup {Append(s, x) : s \in shorter, x \in S}

KeySeqs == SeqsUpTo(Keys, MaxLen)

MutationSeqs == SeqsUpTo(Mutations, MaxLen)

(***************************************************************************)
(* The PessimisticLock trait and its two impls.  A candidate value carries *)
(* the impl its type selects.                                              *)
(***************************************************************************)
ImplKey == "Key"

ImplKeyAssertion == "(Key, Assertion)"

LockKey(k) == [impl |-> ImplKey, self |-> k]

LockPair(k, a) == [impl |-> ImplKeyAssertion, self |-> <<k, a>>]

Candidates ==
  {LockKey(k) : k \in Keys} \cup {LockPair(k, a) : k \in Keys, a \in Assertions}

CandidateSeqs == SeqsUpTo(Candidates, MaxLen)

\* PessimisticLock::key
key(pl) == IF pl.impl = ImplKey THEN pl.self ELSE pl.self[1]

assertion_always_none(pl) == "None"

\* PessimisticLock::assertion
assertion(pl) == IF pl.impl = ImplKey THEN "None" ELSE pl.self[2]

\* The item types at which `impl Iterator<Item = impl PessimisticLock>` can be
\* instantiated for a given sequence: one type for all of its items.
ItemTypes(locks) ==
  {T \in {ImplKey, ImplKeyAssertion} : \A i \in 1..Len(locks) : locks[i].impl = T}

(***************************************************************************)
(* The low-level constructors of the requests module: each binds its       *)
(* arguments to the fields of the request message it returns.              *)
(***************************************************************************)
requests_new_get_request(k, ver) ==
  [key |-> k, msg |-> "GetRequest", version |-> ver]

requests_new_batch_get_request(ks, ver) ==
  [keys |-> ks, msg |-> "BatchGetRequest", version |-> ver]

requests_new_scan_request(start_key, end_key, ver, limit, reverse, key_only) ==
  [end_key |-> end_key, key_only |-> key_only, limit |-> limit,
   msg |-> "ScanRequest", reverse |-> reverse, start_key |-> start_key,
   version |-> ver]

requests_new_resolve_lock_request(start_version, commit_version) ==
  [commit_version |-> commit_version, msg |-> "ResolveLockRequest",
   start_version |-> start_version]

requests_new_cleanup_request(k, start_version) ==
  [key |-> k, msg |-> "CleanupRequest", start_version |-> start_version]

requests_new_prewrite_request(mutations, primary_lock, start_version, lock_ttl) ==
  [lock_ttl |-> lock_ttl, msg |-> "PrewriteRequest", mutations |-> mutations,
   primary_lock |-> primary_lock, start_version |-> start_version]

requests_new_pessimistic_prewrite_request(mutations, primary_lock, start_version, lock_ttl, for_update_ts) ==
  [for_update_ts |-> for_update_ts, lock_ttl |-> lock_ttl,
   msg |-> "PrewriteRequest", mutations |-> mutations,
   primary_lock |-> primary_lock, start_version |-> start_version]

requests_new_commit_request(ks, start_version, commit_version) ==
  [commit_version |-> commit_version, keys |-> ks, msg |-> "CommitRequest",
   start_version |-> start_version]

requests_new_batch_rollback_request(ks, start_version) ==
  [keys |-> ks, msg |-> "BatchRollbackRequest", start_version |-> start_version]

requests_new_pessimistic_rollback_request(ks, start_version, for_update_ts) ==
  [for_update_ts |-> for_update_ts, keys |-> ks,
   msg |-> "PessimisticRollbackRequest", start_version |-> start_version]

requests_new_pessimistic_lock_request(mutations, primary_lock, start_version, lock_ttl, for_update_ts, need_value) ==
  [for_update_ts |-> for_update_ts, lock_ttl |-> lock_ttl,
   msg |-> "PessimisticLockRequest", mutations |-> mutations,
   need_value |-> need_value, primary_lock |-> primary_lock,
   start_version |-> start_version]

requests_new_scan_lock_request(start_key, safepoint, limit) ==
  [limit |-> limit, max_version |-> safepoint, msg |-> "ScanLockRequest",
   start_key |-> start_key]

requests_new_heart_beat_request(start_ts, primary_lock, ttl) ==
  [advise_lock_ttl |-> ttl, msg |-> "TxnHeartBeatRequest",
   primary_lock |-> primary_lock, start_version |-> start_ts]

requests_new_delete_range_request(start_key, end_key) ==
  [end_key |-> end_key, msg |-> "DeleteRangeRequest", start_key |-> start_key]

\* No request: nothing has been built (yet) by the current call.
NoRequest == [msg |-> "none"]

\* A rejected call: what a validating variant of a lowering function would return.
Rejected == [msg |-> "error"]

(***************************************************************************)
(* The lowering functions.  For the functions that take an iterator, the   *)
(* first parameter is the Vec that `map(..).collect()` has produced from   *)
(* it (see the Collect actions below).                                     *)
(***************************************************************************)
new_get_request(k, timestamp) ==
  requests_new_get_request(KeyInto(k), version(timestamp))

new_batch_get_request(collected, timestamp) ==
  requests_new_batch_get_request(collected, version(timestamp))

new_scan_request_start_as_end(range, timestamp, limit, reverse, key_only) ==
  LET start_key == into_keys(range)[1]
      end_key == into_keys(range)[2]
  IN requests_new_scan_request(
       KeyInto(start_key),
       IF end_key = None THEN KeyInto(start_key) ELSE KeyInto(end_key[1]),
       version(timestamp), limit, reverse, key_only)

new_scan_request(range, timestamp, limit, reverse, key_only) ==
  LET start_key == into_keys(range)[1]
      end_key == into_keys(range)[2]
  IN requests_new_scan_request(
       KeyInto(start_key), KeyInto(unwrap_or_default(end_key)),
       version(timestamp), limit, reverse, key_only)

new_resolve_lock_request(start_version, commit_version) ==
  requests_new_resolve_lock_request(version(start_version), version(commit_version))

new_cleanup_request(k, start_version) ==
  requests_new_cleanup_request(KeyInto(k), version(start_version))

new_prewrite_request(mutations, primary_lock, start_version, lock_ttl) ==
  requests_new_prewrite_request(
    mutations, KeyInto(primary_lock), version(start_version), lock_ttl)

new_pessimistic_prewrite_request_transposed(mutations, primary_lock, start_version, lock_ttl, for_update_ts) ==
  requests_new_pessimistic_prewrite_request(
    mutations, KeyInto(primary_lock), version(for_update_ts), lock_ttl,
    version(start_version))

new_pessimistic_prewrite_request_primary_first(mutations, primary_lock, start_version, lock_ttl, for_update_ts) ==
  requests_new_pessimistic_prewrite_request(
    SelectSeq(mutations, LAMBDA m : m.key = KeyInto(primary_lock))
      \o SelectSeq(mutations, LAMBDA m : m.key # KeyInto(primary_lock)),
    KeyInto(primary_lock), version(start_version), lock_ttl,
    version(for_update_ts))

new_pessimistic_prewrite_request(mutations, primary_lock, start_version, lock_ttl, for_update_ts) ==
  requests_new_pessimistic_prewrite_request(
    mutations, KeyInto(primary_lock), version(start_version), lock_ttl,
    version(for_update_ts))

new_commit_request_validating(collected, start_version, commit_version) ==
  IF version(commit_version) <= version(start_version) \/ collected = <<>>
  THEN Rejected
  ELSE requests_new_commit_request(
         collected, version(start_version), version(commit_version))

new_commit_request(collected, start_version, commit_version) ==
  requests_new_commit_request(
    collected, version(start_version), version(commit_version))

new_batch_rollback_request(collected, start_version) ==
  requests_new_batch_rollback_request(collected, version(start_version))

new_pessimistic_rollback_request(collected, start_version, for_update_ts) ==
  requests_new_pessimistic_rollback_request(
    collected, version(start_version), version(for_update_ts))

lock_mutation_plain_lock(pl) ==
  [[[MutationDefault EXCEPT !.op = "Lock"]
      EXCEPT !.assertion = assertion(pl)]
      EXCEPT !.key = KeyInto(key(pl))]

\* The closure of new_pessimistic_lock_request: the mutation built for one candidate.
lock_mutation(pl) ==
  [[[MutationDefault EXCEPT !.op = "PessimisticLock"]
      EXCEPT !.assertion = assertion(pl)]
      EXCEPT !.key = KeyInto(key(pl))]

new_pessimistic_lock_request_no_value(collected, primary_lock, start_version, lock_ttl, for_update_ts, need_value) ==
  requests_new_pessimistic_lock_request(
    collected, KeyInto(primary_lock), version(start_version), lock_ttl,
    version(for_update_ts), FALSE)

new_pessimistic_lock_request(collected, primary_lock, start_version, lock_ttl, for_update_ts, need_value) ==
  requests_new_pessimistic_lock_request(
    collected, KeyInto(primary_lock), version(start_version), lock_ttl,
    version(for_update_ts), need_value)

new_scan_lock_request(start_key, safepoint, limit) ==
  requests_new_scan_lock_request(KeyInto(start_key), version(safepoint), limit)

new_heart_beat_request(start_ts, primary_lock, ttl) ==
  requests_new_heart_beat_request(version(start_ts), KeyInto(primary_lock), ttl)

new_delete_range_request(range) ==
  LET start_key == into_keys(range)[1]
      end_key == into_keys(range)[2]
  IN requests_new_delete_range_request(
       KeyInto(start_key), KeyInto(unwrap_or_default(end_key)))

(***************************************************************************)
(* Draining an iterator: `iter.map(f).collect()`.                          *)
(***************************************************************************)
VecStale == vec

\* The Vec that collect() starts from: a new, empty one.
VecNew == <<>>

VecPushDedup(v, x) == IF \E i \in 1..Len(v) : v[i] = x THEN v ELSE Append(v, x)

\* collect() appends every item the iterator yields to the end of the Vec.
VecPush(v, x) == Append(v, x)

ExhaustedOneShort(i) == Len(i) <= 1

\* Iterator::next returned None: the iterator has no item left.
Exhausted(i) == i = <<>>

(***************************************************************************)
(* The arguments the callers pass.                                         *)
(***************************************************************************)
GetInputs == [key : Keys, timestamp : Timestamps]

BatchGetInputs == [keys : KeySeqs, timestamp : Timestamps]

ScanInputs ==
  [key_only : BOOLEAN, limit : Limits, range : BoundRanges, reverse : BOOLEAN,
   timestamp : Timestamps]

ResolveLockInputs ==
  {[commit_version |-> tp[2], start_version |-> tp[1]] : tp \in TimestampPairs}

CleanupInputs == [key : Keys, start_version : Timestamps]

PrewriteInputs ==
  [lock_ttl : Ttls, mutations : MutationSeqs, primary_lock : Keys,
   start_version : Timestamps]

PessimisticPrewriteInputs ==
  {[for_update_ts |-> tp[2], lock_ttl |-> p.lock_ttl, mutations |-> p.mutations,
    primary_lock |-> p.primary_lock, start_version |-> tp[1]] :
     p \in [lock_ttl : Ttls, mutations : MutationSeqs, primary_lock : Keys],
     tp \in TimestampPairs}

CommitInputs ==
  {[commit_version |-> tp[2], keys |-> ks, start_version |-> tp[1]] :
     ks \in KeySeqs, tp \in TimestampPairs}

BatchRollbackInputs == [keys : KeySeqs, start_version : Timestamps]

PessimisticRollbackInputs ==
  {[for_update_ts |-> tp[2], keys |-> ks, start_version |-> tp[1]] :
     ks \in KeySeqs, tp \in TimestampPairs}

\* Everything a caller may write down as arguments of new_pessimistic_lock_request.
PessimisticLockInputs ==
  {[for_update_ts |-> tp[2], lock_ttl |-> p.lock_ttl, locks |-> p.locks,
    need_value |-> p.need_value, primary_lock |-> p.primary_lock,
    start_version |-> tp[1]] :
     p \in [lock_ttl : Ttls, locks : CandidateSeqs, need_value : BOOLEAN,
            primary_lock : Keys],
     tp \in TimestampPairs}

\* The calls that type-check: all candidates are of one type implementing the trait.
WellTypedLockInputs == {i \in PessimisticLockInputs : ItemTypes(i.locks) # {}}

\* A sequence that mixes bare keys and (key, assertion) pairs has no item type.
IllTypedLockInputs == PessimisticLockInputs \ WellTypedLockInputs

ScanLockInputs == [limit : Limits, safepoint : Timestamps, start_key : Keys]

HeartBeatInputs == [primary_lock : Keys, start_ts : Timestamps, ttl : Ttls]

DeleteRangeInputs == [range : BoundRanges]

(***************************************************************************)
(* State machine: a caller calls a lowering function with arbitrary        *)
(* arguments, takes the request it returns, and may call the same function *)
(* once more with equal arguments before it drops the request.             *)
(***************************************************************************)
NoInput == [none |-> TRUE]

KeyIterFns ==
  {"new_batch_get_request", "new_commit_request", "new_batch_rollback_request",
   "new_pessimistic_rollback_request"}

IterFns == KeyIterFns \cup {"new_pessimistic_lock_request"}

Init ==
  /\ pc = "idle"
  /\ fn = "none"
  /\ in = NoInput
  /\ it = <<>>
  /\ pulls = <<>>
  /\ vec = <<>>
  /\ out = NoRequest
  /\ again = NoRequest

\* The arguments of the next call of f: any of S, or, right after a call of f has
\* returned, the arguments of that call once more.
Args(f, S) ==
  IF pc = "idle" THEN S
  ELSE IF pc = "called" /\ fn = f THEN {in}
  ELSE {}

\* The request of the previous call when this call repeats it (same function,
\* equal arguments); NoRequest otherwise.  History, kept for comparison only.
Repeat(f, i) == IF pc = "called" /\ fn = f /\ in = i THEN out ELSE NoRequest

\* A call of a function without iterator argument: one step from call to return.
Direct(f, i, o) ==
  /\ pc' = "called"
  /\ fn' = f
  /\ in' = i
  /\ out' = o
  /\ again' = Repeat(f, i)
  /\ it' = <<>>
  /\ pulls' = <<>>
  /\ vec' = <<>>

\* A call of a function with an iterator argument: collect() starts draining it.
Begin(f, i, iter) ==
  /\ pc' = "collect"
  /\ fn' = f
  /\ in' = i
  /\ out' = NoRequest
  /\ again' = Repeat(f, i)
  /\ it' = iter
  /\ pulls' = <<>>
  /\ vec' = VecNew

\* The iterator is exhausted: the other arguments are evaluated and the low-level
\* constructor is invoked with the collected Vec.
Delegate(f, o) ==
  /\ pc = "collect"
  /\ fn = f
  /\ Exhausted(it)
  /\ pc' = "called"
  /\ out' = o
  /\ UNCHANGED <<fn, in, it, pulls, vec, again>>

Call_new_get_request ==
  \E i \in Args("new_get_request", GetInputs) :
    Direct("new_get_request", i, new_get_request(i.key, i.timestamp))

Call_new_scan_request ==
  \E i \in Args("new_scan_request", ScanInputs) :
    Direct("new_scan_request", i,
           new_scan_request(i.range, i.timestamp, i.limit, i.reverse, i.key_only))

Call_new_resolve_lock_request ==
  \E i \in Args("new_resolve_lock_request", ResolveLockInputs) :
    Direct("new_resolve_lock_request", i,
           new_resolve_lock_request(i.start_version, i.commit_version))

Call_new_cleanup_request ==
  \E i \in Args("new_cleanup_request", CleanupInputs) :
    Direct("new_cleanup_request", i, new_cleanup_request(i.key, i.start_version))

Call_new_prewrite_request ==
  \E i \in Args("new_prewrite_request", PrewriteInputs) :
    Direct("new_prewrite_request", i,
           new_prewrite_request(i.mutations, i.primary_lock, i.start_version,
                                i.lock_ttl))

Call_new_pessimistic_prewrite_request ==
  \E i \in Args("new_pessimistic_prewrite_request", PessimisticPrewriteInputs) :
    Direct("new_pessimistic_prewrite_request", i,
           new_pessimistic_prewrite_request(i.mutations, i.primary_lock,
                                            i.start_version, i.lock_ttl,
                                            i.for_update_ts))

Call_new_scan_lock_request ==
  \E i \in Args("new_scan_lock_request", ScanLockInputs) :
    Direct("new_scan_lock_request", i,
           new_scan_lock_request(i.start_key, i.safepoint, i.limit))

Call_new_heart_beat_request ==
  \E i \in Args("new_heart_beat_request", HeartBeatInputs) :
    Direct("new_heart_beat_request", i,
           new_heart_beat_request(i.start_ts, i.primary_lock, i.ttl))

Call_new_delete_range_request ==
  \E i \in Args("new_delete_range_request", DeleteRangeInputs) :
    Direct("new_delete_range_request", i, new_delete_range_request(i.range))

Begin_new_batch_get_request ==
  \E i \in Args("new_batch_get_request", BatchGetInputs) :
    Begin("new_batch_get_request", i, i.keys)

Begin_new_commit_request ==
  \E i \in Args("new_commit_request", CommitInputs) :
    Begin("new_commit_request", i, i.keys)

Begin_new_batch_rollback_request ==
  \E i \in Args("new_batch_rollback_request", BatchRollbackInputs) :
    Begin("new_batch_rollback_request", i, i.keys)

Begin_new_pessimistic_rollback_request ==
  \E i \in Args("new_pessimistic_rollback_request", PessimisticRollbackInputs) :
    Begin("new_pessimistic_rollback_request", i, i.keys)

Begin_new_pessimistic_lock_request ==
  \E i \in Args("new_pessimistic_lock_request", WellTypedLockInputs) :
    Begin("new_pessimistic_lock_request", i, i.locks)

\* A call whose candidates have no common item type does not type-check: the
\* function is never entered and no request is built from these arguments.
IllTyped_new_pessimistic_lock_request ==
  /\ pc = "idle"
  /\ \E i \in IllTypedLockInputs :
    /\ pc' = "ill_typed"
    /\ fn' = "new_pessimistic_lock_request"
    /\ in' = i
    /\ UNCHANGED <<it, pulls, vec, out, again>>

\* `keys.map(Into::into).collect()`: one item pulled, converted and appended.
CollectKey ==
  /\ pc = "collect"
  /\ fn \in KeyIterFns
  /\ ~Exhausted(it)
  /\ it' = Tail(it)
  /\ pulls' = Append(pulls, Head(it))
  /\ vec' = VecPush(vec, KeyInto(Head(it)))
  /\ UNCHANGED <<pc, fn, in, out, again>>

\* `locks.map(|pl| ..).collect()`: one candidate pulled, its mutation appended.
CollectLock ==
  /\ pc = "collect"
  /\ fn = "new_pessimistic_lock_request"
  /\ ~Exhausted(it)
  /\ it' = Tail(it)
  /\ pulls' = Append(pulls, Head(it))
  /\ vec' = VecPush(vec, lock_mutation(Head(it)))
  /\ UNCHANGED <<pc, fn, in, out, again>>

Delegate_new_batch_get_request ==
  Delegate("new_batch_get_request", new_batch_get_request(vec, in.timestamp))

Delegate_new_commit_request ==
  Delegate("new_commit_request",
           new_commit_request(vec, in.start_version, in.commit_version))

Delegate_new_batch_rollback_request ==
  Delegate("new_batch_rollback_request",
           new_batch_rollback_request(vec, in.start_version))

Delegate_new_pessimistic_rollback_request ==
  Delegate("new_pessimistic_rollback_request",
           new_pessimistic_rollback_request(vec, in.start_version, in.for_update_ts))

Delegate_new_pessimistic_lock_request ==
  Delegate("new_pessimistic_lock_request",
           new_pessimistic_lock_request(vec, in.primary_lock, in.start_version,
                                        in.lock_ttl, in.for_update_ts, in.need_value))

\* The caller is done with the request (or gives up the ill-typed call): every
\* value of the call is dropped.
Return ==
  /\ pc \in {"called", "ill_typed"}
  /\ pc' = "idle"
  /\ fn' = "none"
  /\ in' = NoInput
  /\ it' = <<>>
  /\ pulls' = <<>>
  /\ vec' = <<>>
  /\ out' = NoRequest
  /\ again' = NoRequest

Next ==
  \/ Call_new_get_request
  \/ Call_new_scan_request
  \/ Call_new_resolve_lock_request
  \/ Call_new_cleanup_request
  \/ Call_new_prewrite_request
  \/ Call_new_pessimistic_prewrite_request
  \/ Call_new_scan_lock_request
  \/ Call_new_heart_beat_request
  \/ Call_new_delete_range_request
  \/ Begin_new_batch_get_request
  \/ Begin_new_commit_request
  \/ Begin_new_batch_rollback_request
  \/ Begin_new_pessimistic_rollback_request
  \/ Begin_new_pessimistic_lock_request
  \/ IllTyped_new_pessimistic_lock_request
  \/ CollectKey
  \/ CollectLock
  \/ Delegate_new_batch_get_request
  \/ Delegate_new_commit_request
  \/ Delegate_new_batch_rollback_request
  \/ Delegate_new_pessimistic_rollback_request
  \/ Delegate_new_pessimistic_lock_request
  \/ Return

Spec == Init /\ [][Next]_vars

(***************************************************************************)
(* Properties.                                                             *)
(***************************************************************************)
\* The request of the current call has been returned.
Returned(f) == pc = "called" /\ fn = f

\* The iterator argument of the current call.
InputSeq == IF fn = "new_pessimistic_lock_request" THEN in.locks ELSE in.keys

\* C1: in every function that takes two timestamps in different roles, the
\* version of each timestamp arrives in the field of its own role, never in the
\* other's: start_ts = 100 and for_update_ts = 105 give start version 100 and
\* for-update version 105.
C1_TimestampRoles ==
  /\ Returned("new_pessimistic_prewrite_request") =>
       /\ out.start_version = in.start_version.version
       /\ out.for_update_ts = in.for_update_ts.version
       /\ (in.start_version = Timestamp(100) /\ in.for_update_ts = Timestamp(105)) =>
            (out.start_version = 100 /\ out.for_update_ts = 105)
  /\ Returned("new_pessimistic_lock_request") =>
       /\ out.start_version = in.start_version.version
       /\ out.for_update_ts = in.for_update_ts.version
  /\ Returned("new_pessimistic_rollback_request") =>
       /\ out.start_version = in.start_version.version
       /\ out.for_update_ts = in.for_update_ts.version
  /\ Returned("new_commit_request") =>
       /\ out.start_version = in.start_version.version
       /\ out.commit_version = in.commit_version.version
  /\ Returned("new_resolve_lock_request") =>
       /\ out.start_version = in.start_version.version
       /\ out.commit_version = in.commit_version.version

C1_Witness ==
  /\ Returned("new_pessimistic_prewrite_request")
  /\ in.start_version = Timestamp(100)
  /\ in.for_update_ts = Timestamp(105)
  /\ out.start_version = 100
  /\ out.for_update_ts = 105

\* C2: the key sequence of a BatchGet, Commit, BatchRollback or
\* PessimisticRollback request is the input sequence: same length, same key at
\* every index, duplicates kept, nothing sorted or dropped.
C2_KeyOrderPreserved ==
  (pc = "called" /\ fn \in KeyIterFns) =>
    /\ Len(out.keys) = Len(in.keys)
    /\ \A i \in 1..Len(in.keys) : out.keys[i] = in.keys[i].bytes

C2_Witness ==
  /\ Returned("new_batch_rollback_request")
  /\ in.keys = <<Key(<<2>>), Key(<<2>>)>>
  /\ out.keys = <<<<2>>, <<2>>>>

\* C3: Scan and DeleteRange pass the start key of the range as the start key, and
\* always set the end key: the empty key when the range has no upper bound, the
\* upper bound itself when it has one.
C3_RangeBounds ==
  (pc = "called" /\ fn \in {"new_scan_request", "new_delete_range_request"}) =>
    /\ {"start_key", "end_key"} \subseteq DOMAIN out
    /\ out.start_key = in.range.start.bytes
    /\ (in.range.end = None) => out.end_key = <<>>
    /\ (in.range.end # None) => out.end_key = in.range.end[1].bytes

C3_Witness ==
  /\ Returned("new_scan_request")
  /\ in.range.start = Key(<<1>>)
  /\ in.range.end = None
  /\ out.start_key = <<1>>
  /\ out.end_key = <<>>

\* C4: in a PessimisticLock request built from bare keys every mutation's
\* assertion is None; built from (key, assertion) pairs, the mutation at each
\* index carries the assertion of the pair at that index.
C4_Assertions ==
  Returned("new_pessimistic_lock_request") =>
    /\ Len(out.mutations) = Len(in.locks)
    /\ \A i \in 1..Len(in.locks) :
         /\ (in.locks[i].impl = ImplKey) => out.mutations[i].assertion = "None"
         /\ (in.locks[i].impl = ImplKeyAssertion) =>
              out.mutations[i].assertion = in.locks[i].self[2]

C4_Witness ==
  /\ Returned("new_pessimistic_lock_request")
  /\ in.locks = <<LockPair(Key(<<1>>), "NotExist"), LockPair(Key(<<2>>), "Exists")>>
  /\ out.mutations[1].assertion = "NotExist"
  /\ out.mutations[2].assertion = "Exists"

\* C5: PessimisticLock builds one mutation per candidate, in input order: as many
\* mutations as candidates (none for no candidate), the mutation at index i with
\* op PessimisticLock and the key of candidate i.
C5_OneLockMutationPerCandidate ==
  Returned("new_pessimistic_lock_request") =>
    /\ Len(out.mutations) = Len(in.locks)
    /\ (in.locks = <<>>) => out.mutations = <<>>
    /\ \A i \in 1..Len(in.locks) :
         /\ out.mutations[i].op = "PessimisticLock"
         /\ out.mutations[i].key =
              (IF in.locks[i].impl = ImplKey THEN in.locks[i].self
               ELSE in.locks[i].self[1]).bytes

C5_Witness ==
  /\ Returned("new_pessimistic_lock_request")
  /\ in.locks = <<LockKey(Key(<<2>>)), LockKey(Key(<<1>>))>>
  /\ out.mutations[1] = Mutation("PessimisticLock", <<2>>, <<>>, "None")
  /\ out.mutations[2] = Mutation("PessimisticLock", <<1>>, <<>>, "None")

\* The scalar arguments of the spec's PessimisticLock example, with candidates cs.
ExampleLockInput(cs) ==
  [for_update_ts |-> Timestamp(12), lock_ttl |-> 3000, locks |-> cs,
   need_value |-> TRUE, primary_lock |-> Key(<<1>>), start_version |-> Timestamp(10)]

\* The request the example expects.
ExampleLockRequest ==
  [for_update_ts |-> 12, lock_ttl |-> 3000, msg |-> "PessimisticLockRequest",
   mutations |-> <<Mutation("PessimisticLock", <<1>>, <<>>, "Exists"),
                   Mutation("PessimisticLock", <<2>>, <<>>, "None")>>,
   need_value |-> TRUE, primary_lock |-> <<1>>, start_version |-> 10]

\* C6 as stated: the call PessimisticLock([("k1", Exists), "k2"], primary = "k1",
\* start_ts = 10, ttl = 3000, for_update_ts = 12, need_value = true), which mixes
\* a pair and a bare key, yields the example's request.
C6_MixedShapesYieldRequest ==
  (/\ fn = "new_pessimistic_lock_request"
   /\ pc \in {"called", "ill_typed"}
   /\ in = ExampleLockInput(<<LockPair(Key(<<1>>), "Exists"), LockKey(Key(<<2>>))>>))
    => out = ExampleLockRequest

\* C6 amended: the candidates of one call are all bare keys or all pairs; with
\* the second candidate written as the pair ("k2", None) the example's call
\* yields the example's request.
C6_OneShapePerCall ==
  Returned("new_pessimistic_lock_request") =>
    /\ ItemTypes(in.locks) # {}
    /\ (in = ExampleLockInput(<<LockPair(Key(<<1>>), "Exists"),
                                LockPair(Key(<<2>>), "None")>>))
         => out = ExampleLockRequest

C6_Witness ==
  /\ Returned("new_pessimistic_lock_request")
  /\ in = ExampleLockInput(<<LockPair(Key(<<1>>), "Exists"),
                             LockPair(Key(<<2>>), "None")>>)
  /\ out = ExampleLockRequest

\* C7: no lowering function rejects its input: every call returns a request, and
\* limit, reverse, key_only, the TTL and the versions are the given values, also
\* for limit = 0, a range with start > end, commit_ts <= start_ts and no keys.
C7_NoValidation ==
  /\ (pc = "called") => out.msg \notin {NoRequest.msg, Rejected.msg}
  /\ (pc = "collect") => ENABLED Next
  /\ Returned("new_scan_request") =>
       /\ out.limit = in.limit
       /\ out.reverse = in.reverse
       /\ out.key_only = in.key_only
       /\ out.version = in.timestamp.version
       /\ out.start_key = in.range.start.bytes
  /\ Returned("new_commit_request") =>
       /\ out.start_version = in.start_version.version
       /\ out.commit_version = in.commit_version.version
       /\ (in.keys = <<>>) => out.keys = <<>>
  /\ Returned("new_resolve_lock_request") =>
       /\ out.start_version = in.start_version.version
       /\ out.commit_version = in.commit_version.version
  /\ Returned("new_prewrite_request") => out.lock_ttl = in.lock_ttl
  /\ Returned("new_pessimistic_prewrite_request") => out.lock_ttl = in.lock_ttl
  /\ Returned("new_pessimistic_lock_request") => out.lock_ttl = in.lock_ttl
  /\ Returned("new_heart_beat_request") => out.advise_lock_ttl = in.ttl
  /\ Returned("new_scan_lock_request") => out.limit = in.limit

C7_Witness ==
  /\ Returned("new_commit_request")
  /\ in.keys = <<>>
  /\ in.start_version = Timestamp(12)
  /\ in.commit_version = Timestamp(10)
  /\ out = [commit_version |-> 10, keys |-> <<>>, msg |-> "CommitRequest",
            start_version |-> 12]

\* C8: a lowering function called a second time with equal arguments returns a
\* request equal to the first: nothing of the first call is carried into the
\* second.
C8_RepeatedCallEqual ==
  (pc = "called" /\ again # NoRequest) => out = again

C8_Witness ==
  /\ Returned("new_pessimistic_rollback_request")
  /\ Len(in.keys) = 2
  /\ again # NoRequest
  /\ out = again

\* C9: Prewrite passes its mutations through unchanged, with the primary key, the
\* start version and the lock TTL; PessimisticPrewrite on the same arguments
\* delegates the same four values and differs only by carrying for_update_ts.
C9_PrewriteEquivalence ==
  /\ Returned("new_prewrite_request") =>
       /\ out.mutations = in.mutations
       /\ out.primary_lock = in.primary_lock.bytes
       /\ out.start_version = in.start_version.version
       /\ out.lock_ttl = in.lock_ttl
  /\ Returned("new_pessimistic_prewrite_request") =>
       LET plain == new_prewrite_request(in.mutations, in.primary_lock,
                                         in.start_version, in.lock_ttl)
       IN /\ DOMAIN out = DOMAIN plain \cup {"for_update_ts"}
          /\ \A f \in DOMAIN plain : out[f] = plain[f]
          /\ out.mutations = in.mutations
          /\ out.for_update_ts = in.for_update_ts.version

C9_Witness ==
  /\ Returned("new_pessimistic_prewrite_request")
  /\ in.mutations = <<Mutation("Lock", <<2>>, <<>>, "Exists"),
                      Mutation("Put", <<1>>, <<2>>, "None")>>
  /\ in.primary_lock = Key(<<1>>)
  /\ out.mutations = in.mutations
  /\ out.for_update_ts = in.for_update_ts.version

\* C10: an iterator argument is consumed once, front to back and to its end, and
\* the low-level constructor is invoked only after that: at every point the items
\* pulled so far followed by the items not yet pulled are the input, one item has
\* been collected per item pulled, and a request exists only when nothing is left.
C10_IteratorDrainedOnce ==
  (fn \in IterFns /\ pc \in {"collect", "called"}) =>
    /\ pulls \o it = InputSeq
    /\ Len(vec) = Len(pulls)
    /\ (pc = "collect") => out = NoRequest
    /\ (pc = "called") => (it = <<>> /\ pulls = InputSeq /\ out # NoRequest)

C10_Witness ==
  /\ Returned("new_pessimistic_lock_request")
  /\ Len(in.locks) = 2
  /\ pulls = in.locks
  /\ it = <<>>

====
